---- MODULE Spec2Model ----
(***************************************************************************)
(* A model of privacy_diary_terminal.py: the key file and the encrypted    *)
(* store file on disk, the EncryptionManager and DiaryStorage of a run,    *)
(* the OllamaManager, and the write_entry flow of the interactive shell.   *)
(*                                                                         *)
(* Text is a sequence of one-character strings.  A timestamp string is a   *)
(* sequence of numbers compared lexicographically, as Python compares the  *)
(* strings datetime.isoformat() returns.  A Fernet token is a record of    *)
(* the key it was made with and the plaintext it carries.                  *)
(***************************************************************************)
EXTENDS Integers, Sequences, FiniteSets, TLC

VARIABLES
    keyFile,     \* KEY_FILE on disk: [exists, data]
    storeFile,   \* ENTRIES_FILE on disk: [exists, data]
    pc,          \* position of the process: "off", "menu", "capture", ...
    key,         \* EncryptionManager.key of the running process
    entries,     \* DiaryStorage.entries of the running process
    ret,         \* what the last storage operation returned to its caller
    firstKey,    \* history: the key Fernet.generate_key() produced, if any
    loadError,   \* history: _load_entries of this run reported an error
    assigned,    \* history: the timestamps save_entry has assigned in this run
    lines,       \* write_entry: the local list "lines"
    stdinLog,    \* history: every line write_entry has read from input()
    entryText,   \* write_entry: the local "entry_text"
    analysis,    \* what the last analyze_sentiment call did and returned
    isAvailable, \* OllamaManager.is_available
    saveCalls,   \* history: the number of save_entry calls of write_entry
    notice       \* the last notice write_entry has shown

vars == <<keyFile, storeFile, pc, key, entries, ret, firstKey, loadError,
          assigned, lines, stdinLog, entryText, analysis, isAvailable,
          saveCalls, notice>>

flowVars == <<lines, stdinLog, entryText, analysis, isAvailable, saveCalls, notice>>

----------------------------------------------------------------------------
(* Bounds *)

\* Instants datetime.now() may return: 1 .. MaxTime, in half seconds.
MaxTime == 2

\* The largest |limit| passed to get_recent_entries.
MaxLimit == 3

\* Instants of the stores get_recent_entries is applied to.
MaxStamp == 4

\* The most lines write_entry appends to "lines".
MaxLines == 2

----------------------------------------------------------------------------
(* Text *)

Whitespace == {" ", "\n"}

\* The lines input() may return (input() never returns the line break).
InputLines ==
    { <<>>,
      <<" ">>,
      <<"a">>,
      <<"E", "N", "D">>,
      <<"e", "n", "d">>,
      <<" ", "E", "n", "d", " ">>,
      <<"E", "N", "D", "a">> }

\* The entry texts the storage operations are exercised with.
Texts == { <<"a">>, <<"E", "N", "D", "a">> }

\* str.upper(), one character.
UpperChar(c) ==
    CASE c = "a" -> "A"
      [] c = "e" -> "E"
      [] c = "n" -> "N"
      [] c = "d" -> "D"
      [] OTHER -> c

\* str.lower(), one character.
LowerChar(c) ==
    CASE c = "A" -> "a"
      [] c = "E" -> "e"
      [] c = "N" -> "n"
      [] c = "D" -> "d"
      [] c = "Y" -> "y"
      [] OTHER -> c

Upper(s) == [i \in 1..Len(s) |-> UpperChar(s[i])]

Lower(s) == [i \in 1..Len(s) |-> LowerChar(s[i])]

\* str.strip(): leading and trailing whitespace removed.
Strip(s) ==
    LET keep == {i \in 1..Len(s) : s[i] \notin Whitespace}
    IN  IF keep = {} THEN <<>>
        ELSE LET lo == CHOOSE i \in keep : \A j \in keep : i <= j
                 hi == CHOOSE i \in keep : \A j \in keep : j <= i
             IN  SubSeq(s, lo, hi)

\* '\n'.join(ls)
RECURSIVE JoinLines(_)
JoinLines(ls) ==
    IF Len(ls) = 0 THEN <<>>
    ELSE IF Len(ls) = 1 THEN ls[1]
    ELSE ls[1] \o <<"\n">> \o JoinLines(Tail(ls))

----------------------------------------------------------------------------
(* Timestamps *)

\* datetime.now().isoformat() of instant t (counted in half seconds): the
\* seconds, then the fraction unless the microsecond is 0, which isoformat
\* leaves out.
IsoFormat(t) ==
    IF t % 2 = 0 THEN <<t \div 2>> ELSE <<t \div 2, 5>>

\* Python's order of two strings: the first difference decides, and a proper
\* prefix is smaller.
StrLess(a, b) ==
    \/ /\ Len(a) < Len(b)
       /\ \A i \in 1..Len(a) : a[i] = b[i]
    \/ \E i \in 1..Len(a) :
          /\ i <= Len(b)
          /\ a[i] < b[i]
          /\ \A j \in 1..(i - 1) : a[j] = b[j]

----------------------------------------------------------------------------
(* Files, JSON and Fernet *)

NoBytes == [tag |-> "empty", key |-> "none", plain |-> {}]

\* A proper, non-empty prefix of a token: what a write that failed part-way
\* leaves behind.
TornBytes == [tag |-> "torn", key |-> "none", plain |-> {}]

AbsentFile == [exists |-> FALSE, data |-> NoBytes]

FileOf(bytes) == [exists |-> TRUE, data |-> bytes]

\* The keys Fernet.generate_key() may return.
Keys == {"k1", "k2"}

KeyBytes(k) == [tag |-> "key", key |-> k, plain |-> {}]

EmptyDict == <<>>

\* self.entries[timestamp] = content
Put(m, ts, content) ==
    [k \in DOMAIN m \cup {ts} |-> IF k = ts THEN content ELSE m[k]]

\* json.dumps(self.entries, indent=2): the members of the JSON object.
JsonDumps(m) == {<<k, m[k]>> : k \in DOMAIN m}

\* json.loads of a JSON object.
JsonLoads(members) ==
    [k \in {p[1] : p \in members} |->
        (CHOOSE p \in members : p[1] = k)[2]]

\* EncryptionManager.encrypt
Encrypt(k, plain) == [tag |-> "token", key |-> k, plain |-> plain]

\* Whether Fernet.decrypt accepts the bytes under key k.
Decrypts(k, bytes) == bytes.tag = "token" /\ bytes.key = k

\* EncryptionManager.decrypt, where it does not raise.
Decrypt(k, bytes) == bytes.plain

----------------------------------------------------------------------------
(* EncryptionManager *)

\* Mutant of KeyFileExists: the key is generated on every run.
KeyFileExistsNever == FALSE

\* KEY_FILE.exists()
KeyFileExists == keyFile.exists

\* Where a function that opens, writes and chmods a file may raise:
\* nowhere, in open(), in f.write() with nothing or with a part of the
\* bytes written, or in os.chmod().
Faults == {"none", "open", "write_empty", "write_torn", "chmod"}

\* The file an open(path, 'wb'), f.write(bytes), os.chmod(path) sequence
\* leaves, given where it raised.
WriteFile(file, bytes, fault) ==
    CASE fault = "open" -> file
      [] fault = "write_empty" -> FileOf(NoBytes)
      [] fault = "write_torn" -> FileOf(TornBytes)
      [] OTHER -> FileOf(bytes)

\* _load_or_create_key: the bytes it returns and the key file it leaves,
\* with fresh the key generate_key() would return and fault where the
\* creation raises.
LoadOrCreateKey(fresh, fault) ==
    IF KeyFileExists
    THEN [bytes |-> keyFile.data, file |-> keyFile, generated |-> FALSE,
          raised |-> FALSE]
    ELSE [bytes |-> KeyBytes(fresh),
          file |-> WriteFile(keyFile, KeyBytes(fresh), fault),
          generated |-> TRUE, raised |-> fault # "none"]

\* Fernet(self.key) accepts the bytes: a key of the right length.
ValidKey(bytes) == bytes.tag = "key"

----------------------------------------------------------------------------
(* DiaryStorage *)

\* _load_entries: the mapping it returns and whether it reported an error.
LoadEntries(file, k) ==
    IF ~file.exists THEN [entries |-> EmptyDict, error |-> FALSE]
    ELSE IF file.data = NoBytes THEN [entries |-> EmptyDict, error |-> FALSE]
    ELSE IF Decrypts(k, file.data)
         THEN [entries |-> JsonLoads(Decrypt(k, file.data)), error |-> FALSE]
         ELSE [entries |-> EmptyDict, error |-> TRUE]

\* The store file save_entry leaves, given the token and where it raised.
WriteStore(file, token, fault) == WriteFile(file, token, fault)

\* save_entry's return value.
SaveResult(fault) == fault = "none"

\* Mutant of SaveInsert: an entry already under the timestamp is kept
\* (dict.setdefault).
SaveInsertKeepFirst(m, ts, content) ==
    IF ts \in DOMAIN m THEN m ELSE Put(m, ts, content)

\* The mapping after self.entries[timestamp] = content.
SaveInsert(m, ts, content) == Put(m, ts, content)

\* Mutant of SavePlain: the mapping is serialized before the insert.
SavePlainStale(m) == JsonDumps(entries)

\* The plaintext save_entry encrypts.
SavePlain(m) == JsonDumps(m)

\* get_entry_count
GetEntryCount(m) == Cardinality(DOMAIN m)

\* sorted(self.entries.items(), reverse=True): the keys of a dict differ, so
\* the timestamps alone decide the order.
RECURSIVE SortedDesc(_)
SortedDesc(m) ==
    IF DOMAIN m = {} THEN <<>>
    ELSE LET top == CHOOSE k \in DOMAIN m :
                       \A j \in DOMAIN m : j = k \/ StrLess(j, k)
         IN  <<<<top, m[top]>>>> \o
             SortedDesc([k \in DOMAIN m \ {top} |-> m[k]])

\* seq[:limit], with Python's reading of a negative limit.
SliceTo(seq, limit) ==
    IF limit >= 0
    THEN SubSeq(seq, 1, IF limit < Len(seq) THEN limit ELSE Len(seq))
    ELSE SubSeq(seq, 1, IF Len(seq) + limit > 0 THEN Len(seq) + limit ELSE 0)

\* Mutant of GetRecentEntries: the sort without reverse=True.
GetRecentEntriesAscending(m, limit) ==
    LET d == SortedDesc(m)
    IN  SliceTo([i \in 1..Len(d) |-> d[Len(d) + 1 - i]], limit)

\* get_recent_entries
GetRecentEntries(m, limit) == SliceTo(SortedDesc(m), limit)

----------------------------------------------------------------------------
(* OllamaManager *)

\* DEFAULT_MODEL
DefaultModel == "llama3"

\* What ollama.list() may do, and what ollama.chat() and reading
\* response['message']['content'] may do.
ListOutcomes == {"ok", "raise"}
ChatOutcomes == {"text", "raise", "malformed"}

\* check_availability's return value.
CheckAvailability(list) == list = "ok"

\* Mutant of AnalyzeSentiment: no availability check before the chat call.
AnalyzeSentimentUnchecked(list, chat) ==
    [called |-> TRUE, list |-> list, chat |-> chat, chatCalled |-> TRUE,
     raised |-> FALSE,
     kind |-> IF chat = "text" THEN "text" ELSE "failed",
     model |-> IF chat = "text" THEN "none" ELSE DefaultModel]

\* analyze_sentiment: whether it issued the chat call, whether an exception
\* left it, and the kind of string it returned.
AnalyzeSentiment(list, chat) ==
    IF ~CheckAvailability(list)
    THEN [called |-> TRUE, list |-> list, chat |-> "none",
          chatCalled |-> FALSE, raised |-> FALSE, kind |-> "not_running",
          model |-> "none"]
    ELSE [called |-> TRUE, list |-> list, chat |-> chat,
          chatCalled |-> TRUE, raised |-> FALSE,
          kind |-> IF chat = "text" THEN "text" ELSE "failed",
          model |-> IF chat = "text" THEN "none" ELSE DefaultModel]

----------------------------------------------------------------------------
(* write_entry *)

\* 'END'
SentinelToken == <<"E", "N", "D">>

\* In stdinLog: input() raised EOFError.
EndOfInput == <<"EOF">>

\* Mutant of IsSentinel: the line is compared without strip().
IsSentinelUnstripped(line) == Upper(line) = SentinelToken

\* line.strip().upper() == 'END'
IsSentinel(line) == Upper(Strip(line)) = SentinelToken

\* Mutant of EntryText: the joined lines are not stripped.
EntryTextUnstripped(ls) == JoinLines(ls)

\* '\n'.join(lines).strip()
EntryText(ls) == Strip(JoinLines(ls))

\* What the user may type at a [Y/n] prompt.
Answers == { <<>>, <<"y">>, <<"n">>, <<" ", "N">> }

\* input(...).strip().lower() != 'n'
Accepts(ans) == Lower(Strip(ans)) # <<"n">>

----------------------------------------------------------------------------
(* The state of a run *)

NoStamp == <<>>

\* ret: the operation, its arguments and result, and (history) the mapping
\* it found and whether this run had assigned its timestamp before.
NoRet ==
    [op |-> "none", ok |-> FALSE, ts |-> NoStamp, text |-> <<>>,
     pre |-> EmptyDict, again |-> FALSE, limit |-> 0, result |-> <<>>]

NoAnalysis ==
    [called |-> FALSE, list |-> "none", chat |-> "none", chatCalled |-> FALSE,
     raised |-> FALSE, kind |-> "none", model |-> "none"]

FlowIdle ==
    /\ lines = <<>>
    /\ stdinLog = <<>>
    /\ entryText = <<>>
    /\ analysis = NoAnalysis
    /\ isAvailable = FALSE
    /\ saveCalls = 0
    /\ notice = "none"

\* A data directory no run has used yet, and no process.
Init ==
    /\ keyFile = AbsentFile
    /\ storeFile = AbsentFile
    /\ pc = "off"
    /\ key = "none"
    /\ entries = EmptyDict
    /\ ret = NoRet
    /\ firstKey = "none"
    /\ loadError = FALSE
    /\ assigned = {}
    /\ FlowIdle

\* main(): EncryptionManager(), then DiaryStorage(encryption).  An
\* exception in EncryptionManager() ends the process.
StartRun ==
    /\ pc = "off"
    /\ \E fresh \in Keys, fault \in Faults :
          LET k == LoadOrCreateKey(fresh, fault)
              l == LoadEntries(storeFile, k.bytes.key)
          IN  /\ keyFile' = k.file
              /\ firstKey' = IF k.generated THEN fresh ELSE firstKey
              /\ IF k.raised \/ ~ValidKey(k.bytes)
                 THEN UNCHANGED <<pc, key, entries, loadError, ret>>
                 ELSE /\ pc' = "menu"
                      /\ key' = k.bytes.key
                      /\ entries' = l.entries
                      /\ loadError' = l.error
                      /\ ret' = [NoRet EXCEPT !.op = "load", !.ok = ~l.error]
    /\ assigned' = {}
    /\ UNCHANGED <<storeFile>>
    /\ UNCHANGED flowVars

\* DiaryStorage.save_entry(content), with now the instant datetime.now()
\* returns and fault where the call raises.
SaveEntry(content, now, fault) ==
    LET ts == IsoFormat(now)
        m == SaveInsert(entries, ts, content)
        token == Encrypt(key, SavePlain(m))
    IN  /\ entries' = m
        /\ storeFile' = WriteStore(storeFile, token, fault)
        /\ ret' = [NoRet EXCEPT !.op = "save", !.ok = SaveResult(fault),
                                !.ts = ts, !.text = content,
                                !.pre = entries, !.again = (ts \in assigned)]
        /\ assigned' = assigned \cup {ts}

\* A save_entry call from the menu loop.
Save ==
    /\ pc = "menu"
    /\ \E content \in Texts, now \in 1..MaxTime, fault \in Faults :
          SaveEntry(content, now, fault)
    /\ UNCHANGED <<keyFile, key, firstKey, loadError, pc>>
    /\ UNCHANGED flowVars

\* Menu choice 4: sys.exit(0).
Exit ==
    /\ pc = "menu"
    /\ pc' = "off"
    /\ key' = "none"
    /\ entries' = EmptyDict
    /\ ret' = NoRet
    /\ loadError' = FALSE
    /\ assigned' = {}
    /\ UNCHANGED <<keyFile, storeFile, firstKey>>
    /\ UNCHANGED flowVars

Next == StartRun \/ Save \/ Exit

Spec == Init /\ [][Next]_vars

----------------------------------------------------------------------------
(* get_recent_entries, applied to the stores a run can hold *)

\* The store file a successful save of mapping m leaves under key k.
StoreOf(m, k) == FileOf(Encrypt(k, JsonDumps(m)))

\* The mappings over a set of instants.
Mappings(instants) ==
    UNION {[{IsoFormat(t) : t \in T} -> Texts] : T \in SUBSET instants}

\* A run at its menu, holding mapping m as its saves have persisted it.
RunHolding(m) ==
    /\ keyFile = FileOf(KeyBytes("k1"))
    /\ key = "k1"
    /\ firstKey = "k1"
    /\ entries = m
    /\ storeFile = IF m = EmptyDict THEN AbsentFile ELSE StoreOf(m, "k1")
    /\ ret = NoRet
    /\ loadError = FALSE
    /\ assigned = {}

InitRecent ==
    /\ pc = "menu"
    /\ \E m \in Mappings(1..MaxStamp) : RunHolding(m)
    /\ FlowIdle

\* storage.get_recent_entries(limit)
GetRecent ==
    /\ pc = "menu"
    /\ \E limit \in (0 - MaxLimit)..MaxLimit :
          ret' = [NoRet EXCEPT !.op = "recent", !.limit = limit,
                               !.result = GetRecentEntries(entries, limit)]
    /\ UNCHANGED <<keyFile, storeFile, pc, key, entries, firstKey, loadError,
                   assigned>>
    /\ UNCHANGED flowVars

NextRecent == GetRecent

SpecRecent == InitRecent /\ [][NextRecent]_vars

----------------------------------------------------------------------------
(* One call of write_entry *)

\* write_entry has just been called, by a run holding at most one entry.
InitWrite ==
    /\ pc = "capture"
    /\ \E m \in Mappings(1..MaxTime) :
          /\ GetEntryCount(m) <= 1
          /\ RunHolding(m)
    /\ FlowIdle

storeAll == <<keyFile, storeFile, key, entries, ret, firstKey, loadError,
              assigned>>

\* input() returns a line that is not the sentinel: lines.append(line).
CaptureLine ==
    /\ pc = "capture"
    /\ Len(lines) < MaxLines
    /\ \E line \in InputLines :
          /\ ~IsSentinel(line)
          /\ lines' = Append(lines, line)
          /\ stdinLog' = Append(stdinLog, line)
    /\ UNCHANGED <<pc, entryText, analysis, isAvailable, saveCalls, notice>>
    /\ UNCHANGED storeAll

\* The loop ends with what was read last: entry_text is computed, and an
\* empty one ends the call with the notice.
EndCapture(last) ==
    /\ stdinLog' = Append(stdinLog, last)
    /\ entryText' = EntryText(lines)
    /\ IF entryText' = <<>>
       THEN pc' = "menu" /\ notice' = "no_entry"
       ELSE pc' = "ask_analysis" /\ notice' = "word_count"
    /\ UNCHANGED <<lines, analysis, isAvailable, saveCalls>>
    /\ UNCHANGED storeAll

\* input() returns the sentinel line: break.
CaptureSentinel ==
    /\ pc = "capture"
    /\ \E line \in InputLines :
          /\ IsSentinel(line)
          /\ EndCapture(line)

\* input() raises EOFError: break.
CaptureEOF ==
    /\ pc = "capture"
    /\ EndCapture(EndOfInput)

\* The answer to "Would you like AI analysis of this entry?".
AnswerAnalysis ==
    /\ pc = "ask_analysis"
    /\ \E ans \in Answers :
          IF Accepts(ans)
          THEN \E list \in ListOutcomes, chat \in ChatOutcomes :
                  /\ analysis' = AnalyzeSentiment(list, chat)
                  /\ isAvailable' = CheckAvailability(list)
          ELSE UNCHANGED <<analysis, isAvailable>>
    /\ pc' = "ask_save"
    /\ UNCHANGED <<lines, stdinLog, entryText, saveCalls, notice>>
    /\ UNCHANGED storeAll

\* The answer to "Save this entry?".
AnswerSave ==
    /\ pc = "ask_save"
    /\ \E ans \in Answers :
          IF Accepts(ans)
          THEN /\ \E now \in 1..MaxTime, fault \in Faults :
                     /\ SaveEntry(entryText, now, fault)
                     /\ notice' = IF SaveResult(fault) THEN "saved"
                                   ELSE "save_failed"
               /\ saveCalls' = saveCalls + 1
          ELSE /\ notice' = "discarded"
               /\ UNCHANGED <<entries, storeFile, ret, assigned, saveCalls>>
    /\ pc' = "menu"
    /\ UNCHANGED <<keyFile, key, firstKey, loadError>>
    /\ UNCHANGED <<lines, stdinLog, entryText, analysis, isAvailable>>

\* input() raises EOFError at a [Y/n] prompt: the exception leaves
\* write_entry and main() reports it.
PromptEOF ==
    /\ pc \in {"ask_analysis", "ask_save"}
    /\ pc' = "menu"
    /\ notice' = "error"
    /\ UNCHANGED <<lines, stdinLog, entryText, analysis, isAvailable, saveCalls>>
    /\ UNCHANGED storeAll

NextWrite ==
    \/ CaptureLine
    \/ CaptureSentinel
    \/ CaptureEOF
    \/ AnswerAnalysis
    \/ AnswerSave
    \/ PromptEOF

SpecWrite == InitWrite /\ [][NextWrite]_vars

----------------------------------------------------------------------------
(* Claims about the key file and the store *)

\* The store file decrypts, under key k, to a JSON object of timestamps
\* and texts.
ValidStore(file, k) ==
    /\ file.exists
    /\ Decrypts(k, file.data)
    /\ \A p \in file.data.plain, q \in file.data.plain :
          p[1] = q[1] => p = q

\* The store file holds text under timestamp ts.
Persisted(ts, text) ==
    /\ storeFile.exists
    /\ storeFile.data.tag = "token"
    /\ <<ts, text>> \in storeFile.data.plain

\* C2: in every state reached by loads and saves, failing or not, the
\* store file is absent, empty, or a valid ciphertext, under the key of
\* the data directory, of a JSON object of timestamps and texts.
C2_StoreFileValid ==
    \/ ~storeFile.exists
    \/ storeFile.data = NoBytes
    \/ ValidStore(storeFile, keyFile.data.key)

\* C3: once the load of a run has failed to decrypt the store file, no
\* operation of that run changes the file: the data on disk is not lost.
C3_DataNotLost ==
    [][(pc = "menu" /\ loadError) => storeFile' = storeFile]_vars

\* C4: a save_entry that fails returns False, leaves the new entry in the
\* in-memory mapping and leaves it out of the store file.
C4_FailedSaveNotPersisted ==
    (ret.op = "save" /\ ~ret.ok) =>
        /\ ret.ts \in DOMAIN entries
        /\ entries[ret.ts] = ret.text
        /\ ~Persisted(ret.ts, ret.text)

\* C5: a run generates and writes a key only when there is no key file; a
\* key file, once there, is never rewritten; every run uses the bytes of
\* the key file, which are the key the run that wrote the file generated.
C5_KeyPersistence ==
    /\ [](pc # "off" =>
            /\ keyFile.exists
            /\ keyFile.data = KeyBytes(key)
            /\ key = firstKey)
    /\ [][keyFile.exists => (keyFile' = keyFile /\ firstKey' = firstKey)]_vars
    /\ [][keyFile' # keyFile => pc = "off"]_vars

\* Two runs have used the data directory: the second found the key file.
C5_Witness ==
    /\ pc = "menu"
    /\ storeFile.exists
    /\ ret.op = "load"
    /\ key = firstKey

\* C6: when save_entry assigns a timestamp this run has assigned before
\* (or one already in the mapping), the mapping afterwards holds one entry
\* for it, with the later text, the entry count has not grown, and a
\* successful save leaves the same single entry in the store file.
C6_CollisionOverwrites ==
    (ret.op = "save" /\ (ret.again \/ ret.ts \in DOMAIN ret.pre)) =>
        /\ ret.ts \in DOMAIN ret.pre
        /\ entries[ret.ts] = ret.text
        /\ GetEntryCount(entries) = GetEntryCount(ret.pre)
        /\ ret.ok =>
              /\ ValidStore(storeFile, key)
              /\ {p \in storeFile.data.plain : p[1] = ret.ts}
                    = {<<ret.ts, ret.text>>}
              /\ Cardinality(storeFile.data.plain) = GetEntryCount(ret.pre)

\* A successful save under a timestamp assigned before, with another text.
C6_Witness ==
    /\ ret.op = "save"
    /\ ret.ok
    /\ ret.again
    /\ ret.pre[ret.ts] # ret.text

\* C10: after a successful save_entry(text) under timestamp T the mapping
\* is the earlier mapping with T set to text, the store file decrypts to
\* exactly the mapping (entries of earlier failed saves included), and if
\* T is above every other timestamp get_recent_entries(1) is <<(T, text)>>.
C10_SaveFrame ==
    (ret.op = "save" /\ ret.ok) =>
        /\ DOMAIN entries = DOMAIN ret.pre \cup {ret.ts}
        /\ entries[ret.ts] = ret.text
        /\ \A k \in DOMAIN ret.pre : k # ret.ts => entries[k] = ret.pre[k]
        /\ ValidStore(storeFile, key)
        /\ LoadEntries(storeFile, key).entries = entries
        /\ (\A k \in DOMAIN entries : k = ret.ts \/ StrLess(k, ret.ts)) =>
              GetRecentEntries(entries, 1) = <<<<ret.ts, ret.text>>>>

\* A successful save of the newest entry into a mapping that held another.
C10_Witness ==
    /\ ret.op = "save"
    /\ ret.ok
    /\ ret.pre # EmptyDict
    /\ \A k \in DOMAIN ret.pre : StrLess(k, ret.ts)
    /\ GetEntryCount(entries) >= 2

----------------------------------------------------------------------------
(* Claims about get_recent_entries *)

Min(a, b) == IF a < b THEN a ELSE b

\* The result is in strictly descending order of the timestamp strings and
\* each of its pairs is an entry of the mapping.
DescendingEntries(result) ==
    /\ \A i \in 1..Len(result), j \in 1..Len(result) :
          i < j => StrLess(result[j][1], result[i][1])
    /\ \A i \in 1..Len(result) :
          /\ result[i][1] \in DOMAIN entries
          /\ result[i][2] = entries[result[i][1]]

\* C1 as stated: for every limit n, get_recent_entries(n) returns entries
\* in strictly descending timestamp order, min(n, count()) of them.
C1_RecentAnyLimit ==
    ret.op = "recent" =>
        /\ DescendingEntries(ret.result)
        /\ Len(ret.result) = Min(ret.limit, GetEntryCount(entries))

\* C1, amended: for every limit n >= 0, get_recent_entries(n) returns
\* entries in strictly descending timestamp order, min(n, count()) of
\* them, and so the empty sequence on a store with no entries.
C1_RecentOrdered ==
    (ret.op = "recent" /\ ret.limit >= 0) =>
        /\ DescendingEntries(ret.result)
        /\ Len(ret.result) = Min(ret.limit, GetEntryCount(entries))
        /\ (entries = EmptyDict => ret.result = <<>>)

\* A limit that cuts a store of three or more entries to two or more.
C1_Witness ==
    /\ ret.op = "recent"
    /\ ret.limit >= 2
    /\ ret.limit < GetEntryCount(entries)
    /\ Len(ret.result) = ret.limit

----------------------------------------------------------------------------
(* Claims about write_entry *)

\* The text consists of whitespace only, or is empty.
Blank(text) == \A i \in 1..Len(text) : text[i] \in Whitespace

\* C7: when the captured text is empty or whitespace only, write_entry
\* ends with the notice before any analysis or save prompt: save_entry is
\* not called and the mapping and the store file stay as they were.
C7_BlankNotSaved ==
    [][(pc' # "capture" /\ Blank(JoinLines(lines'))) =>
          /\ pc' = "menu"
          /\ notice' = "no_entry"
          /\ analysis' = NoAnalysis
          /\ saveCalls' = 0
          /\ UNCHANGED <<entries, storeFile, ret>>]_vars

\* A capture of two whitespace lines has ended, on a store with an entry.
C7_Witness ==
    /\ pc = "menu"
    /\ Len(lines) >= 2
    /\ Blank(JoinLines(lines))
    /\ entries # EmptyDict

\* C8: analyze_sentiment lets no exception of the assistant service out and
\* returns a string: the 'not running' warning, without a chat call, when
\* the availability check fails, and a warning naming the failure and the
\* configured model when the chat call or reading its response fails.
C8_AnalysisNeverRaises ==
    analysis.called =>
        /\ ~analysis.raised
        /\ analysis.kind \in {"not_running", "failed", "text"}
        /\ analysis.list = "raise" =>
              (analysis.kind = "not_running" /\ ~analysis.chatCalled)
        /\ analysis.list = "ok" => analysis.chatCalled
        /\ (analysis.list = "ok" /\ analysis.chat \in {"raise", "malformed"}) =>
              (analysis.kind = "failed" /\ analysis.model = DefaultModel)
        /\ (analysis.list = "ok" /\ analysis.chat = "text") =>
              analysis.kind = "text"

\* The analysis was asked for with the service unreachable.
C8_Witness ==
    /\ analysis.called
    /\ analysis.list = "raise"
    /\ analysis.kind = "not_running"
    /\ pc = "ask_save"

\* The first of the places at of the log, or one past the log's end.
FirstStop(at) ==
    IF at = {} THEN Len(stdinLog) + 1
    ELSE CHOOSE i \in at : \A j \in at : i <= j

\* With at the places of the log whose line stops the capture: the capture
\* stops at the first of them and reads nothing after it, and the lines
\* before it, and no others, are kept.
CaptureStopsAt(at) ==
    LET stop == FirstStop(at)
    IN  /\ lines = SubSeq(stdinLog, 1, stop - 1)
        /\ stop >= Len(stdinLog)
        /\ pc = "capture" <=> stop = Len(stdinLog) + 1

\* The line is the sentinel up to case, or input is exhausted.
ExactStop(line) == line = EndOfInput \/ Upper(line) = SentinelToken

\* The line is, stripped of surrounding whitespace, the sentinel up to
\* case, or input is exhausted.
StrippedStop(line) ==
    \/ line = EndOfInput
    \/ \E lo \in 1..Len(line), hi \in 1..Len(line) :
          /\ Upper(SubSeq(line, lo, hi)) = SentinelToken
          /\ \A i \in 1..Len(line) :
                (i < lo \/ i > hi) => line[i] \in Whitespace

\* C9 as stated: the capture stops at the first line exactly equal, up to
\* case, to the sentinel (or at the end of input); a line that is not,
\* such as the sentinel with spaces around it, is kept as entry text.
C9_StopsAtExactSentinel ==
    CaptureStopsAt({i \in 1..Len(stdinLog) : ExactStop(stdinLog[i])})

\* C9, amended: the capture stops at the first line that, once stripped of
\* surrounding whitespace, equals the sentinel up to case (or at the end
\* of input); every line before it, and no line after it, is captured, and
\* the entry text is those lines joined by line breaks.
C9_StopsAtStrippedSentinel ==
    /\ CaptureStopsAt({i \in 1..Len(stdinLog) : StrippedStop(stdinLog[i])})
    /\ pc # "capture" =>
          LET joined == JoinLines(lines)
          IN  \/ Blank(joined) /\ entryText = <<>>
              \/ \E lo \in 1..Len(joined), hi \in 1..Len(joined) :
                    /\ entryText = SubSeq(joined, lo, hi)
                    /\ joined[lo] \notin Whitespace
                    /\ joined[hi] \notin Whitespace
                    /\ \A i \in 1..Len(joined) :
                          (i < lo \/ i > hi) => joined[i] \in Whitespace

\* The capture kept a line that starts with the sentinel and stopped at
\* the sentinel with spaces around it.
C9_Witness ==
    /\ pc # "capture"
    /\ Len(lines) = 2
    /\ lines[2] = <<"E", "N", "D", "a">>
    /\ stdinLog[Len(stdinLog)] = <<" ", "E", "n", "d", " ">>

====
